---- MODULE Spec2Model ----
(***************************************************************************)
(* State-machine model of the FMP stock screener (src/app.py):             *)
(*   - get_json_with_retry      bounded retry with exponential backoff     *)
(*   - fetch_screener_batch     concurrent per-exchange fetch, merge,      *)
(*                              deduplication by symbol                    *)
(*   - add_valuation_columns_bulk  bulk valuation left-join + EV/EBITDA    *)
(*                              reconciliation, and the caller's unpacking *)
(*   - sector / industry summaries                                         *)
(***************************************************************************)
EXTENDS Integers, Sequences, FiniteSets, TLC

VARIABLES
    retries,      \* get_json_with_retry: the retries argument
    call,         \* get_json_with_retry: the running call (loop index, position, last_exc, event log)
    exchanges,    \* fetch_screener_batch: the exchanges tuple
    futs,         \* fetch_screener_batch: the futures, one per exchange
    dfs,          \* fetch_screener_batch: frames appended in completion order
    errors,       \* fetch_screener_batch: error strings appended in completion order
    warnings,     \* st.warning messages emitted
    fpc,          \* fetch_screener_batch: position of the main thread
    df_all,       \* fetch_screener_batch: the returned table
    df,           \* run handler: the screener table handed to add_valuation_columns_bulk
    r1,           \* add_valuation_columns_bulk: outcome of the ratios-ttm-bulk GET
    r2,           \* add_valuation_columns_bulk: outcome of the key-metrics-ttm-bulk GET
    ratios_bulk,  \* add_valuation_columns_bulk: frame of the ratios bulk
    km_bulk,      \* add_valuation_columns_bulk: frame of the key-metrics bulk
    ret,          \* add_valuation_columns_bulk: what the call returned or raised
    epc,          \* run handler: position in steps 1-2 (lines 240-247)
    table,        \* summaries: the final table (symbol, sector, industry, marketCap)
    show_sector_summary,    \* sidebar checkbox
    show_industry_summary,  \* sidebar checkbox
    sec,          \* the sector summary frame
    ind,          \* the industry summary frame
    spc           \* run handler: position in the summaries (lines 270-299)

retryVars == <<retries, call>>
fetchVars == <<exchanges, futs, dfs, errors, warnings, fpc, df_all>>
enrichVars == <<df, r1, r2, ratios_bulk, km_bulk, ret, epc>>
summaryVars == <<table, show_sector_summary, show_industry_summary, sec, ind, spc>>
vars == <<retryVars, fetchVars, enrichVars, summaryVars>>

(***************************************************************************)
(* Bounds                                                                  *)
(***************************************************************************)
MaxRetries == 3
MaxExchanges == 3
MaxBulk == 2
MaxTableRows == 3

(***************************************************************************)
(* Small helpers                                                           *)
(***************************************************************************)
\* the orders in which n things can come
Orders(n) == {o \in [1..n -> 1..n] : \A a, b \in 1..n : o[a] = o[b] => a = b}

RECURSIVE Pow2(_)
Pow2(n) == IF n = 0 THEN 1 ELSE 2 * Pow2(n - 1)

(***************************************************************************)
(* get_json_with_retry (src/app.py:54-64)                                  *)
(***************************************************************************)
\* time.sleep(0.8 * (2 ** i)): the base delay, in tenths of a second
BaseDelayTenths == 8

\* what one attempt (session.get, raise_for_status, r.json) can do
ErrorKinds == {"transport", "http_status", "bad_json"}
Outcomes == {"ok"} \cup ErrorKinds

\* a record of the screener's JSON array: the key "symbol" may be absent
Absent == "absent"
Rec(sym) == [symbol |-> sym]

\* the JSON bodies a successful attempt of the stand-alone call may carry
Bodies == {<<Rec("A")>>, <<Rec("B")>>}

NoExc == [kind |-> "none", at |-> -1]
NoBody == <<>>

\* for i in range(retries + 1): enter the body or fall through to the raise
LoopEnter(i, n) == IF i < n + 1 THEN "get" ELSE "raise"

SleepTenths(i) == BaseDelayTenths * Pow2(i)

Event(ev, i, out, body, d) == [ev |-> ev, i |-> i, out |-> out, body |-> body, d |-> d]

RetryStart(n) ==
    [i |-> 0, pc |-> LoopEnter(0, n), last_exc |-> NoExc, result |-> NoBody,
     raised |-> NoExc, log |-> <<>>]

\* variant of AttemptStep: only the first exception is remembered
AttemptStepKeepsFirst(st, out, body) ==
    IF out = "ok"
    THEN [st EXCEPT !.pc = "returned", !.result = body,
                    !.log = Append(st.log, Event("get", st.i, out, body, 0))]
    ELSE [st EXCEPT !.pc = "sleep",
                    !.last_exc = IF st.last_exc = NoExc THEN [kind |-> out, at |-> st.i]
                                 ELSE st.last_exc,
                    !.log = Append(st.log, Event("get", st.i, out, NoBody, 0))]

\* lines 57-62: one attempt; success returns r.json(), any exception is kept in last_exc
AttemptStep(st, out, body) ==
    IF out = "ok"
    THEN [st EXCEPT !.pc = "returned", !.result = body,
                    !.log = Append(st.log, Event("get", st.i, out, body, 0))]
    ELSE [st EXCEPT !.pc = "sleep", !.last_exc = [kind |-> out, at |-> st.i],
                    !.log = Append(st.log, Event("get", st.i, out, NoBody, 0))]

\* line 63: the sleep that ends the except clause, then the next loop iteration
SleepStep(st, n) ==
    [st EXCEPT !.pc = LoopEnter(st.i + 1, n), !.i = st.i + 1,
               !.log = Append(st.log, Event("sleep", st.i, "none", NoBody, SleepTenths(st.i)))]

\* line 64: raise last_exc
RaiseStep(st) == [st EXCEPT !.pc = "raised", !.raised = st.last_exc]

Terminated(st) == st.pc \in {"returned", "raised"}

\* the whole call, run to completion on a given pattern of attempt outcomes
RECURSIVE RunRetry(_, _, _, _)
RunRetry(st, n, outs, body) ==
    CASE st.pc = "get"   -> RunRetry(AttemptStep(st, outs[st.i + 1], body), n, outs, body)
      [] st.pc = "sleep" -> RunRetry(SleepStep(st, n), n, outs, body)
      [] st.pc = "raise" -> RunRetry(RaiseStep(st), n, outs, body)
      [] OTHER           -> st

IdleCall == RetryStart(0)

RetryInit ==
    /\ retries \in 0..MaxRetries
    /\ call = RetryStart(retries)

Attempt ==
    /\ call.pc = "get"
    /\ \E out \in Outcomes, body \in Bodies : call' = AttemptStep(call, out, body)
    /\ UNCHANGED <<retries, fetchVars, enrichVars, summaryVars>>

Sleep ==
    /\ call.pc = "sleep"
    /\ call' = SleepStep(call, retries)
    /\ UNCHANGED <<retries, fetchVars, enrichVars, summaryVars>>

Raise ==
    /\ call.pc = "raise"
    /\ call' = RaiseStep(call)
    /\ UNCHANGED <<retries, fetchVars, enrichVars, summaryVars>>

RetryNext == Attempt \/ Sleep \/ Raise

(***************************************************************************)
(* Data frames: a set of column labels and a sequence of rows.  Only the   *)
(* columns that the code inspects carry values in the rows; the provider's *)
(* other fields are present as labels.                                     *)
(***************************************************************************)
NaN == "NaN"
PassthroughCols == {"companyName", "sector", "industry", "marketCap"}

Frame(cols, rows) == [cols |-> cols, rows |-> rows]
EmptyFrame == Frame({}, <<>>)

\* DataFrame.empty: some axis has length 0
IsEmpty(f) == f.cols = {} \/ Len(f.rows) = 0

RECURSIVE MapSeq(_, _)
MapSeq(Op(_), s) == IF s = <<>> THEN <<>> ELSE <<Op(Head(s))>> \o MapSeq(Op, Tail(s))

\* pd.DataFrame(data) for a JSON array of objects: columns are the union of
\* the keys, a key missing from one record is NaN in its row (line 105)
DataFrameOf(data) ==
    LET ScreenerRow(rec) ==
            [symbol |-> IF rec.symbol = Absent THEN NaN ELSE rec.symbol,
             sourceExchange |-> NaN]
    IN  IF Len(data) = 0 THEN EmptyFrame
        ELSE Frame(PassthroughCols \cup
                     (IF \E k \in 1..Len(data) : data[k].symbol # Absent
                      THEN {"symbol"} ELSE {}),
                   MapSeq(ScreenerRow, data))

\* df["sourceExchange"] = exch (line 107)
TagExchange(f, exch) ==
    LET Tag(row) == [row EXCEPT !.sourceExchange = exch]
    IN  Frame(f.cols \cup {"sourceExchange"}, MapSeq(Tag, f.rows))

\* pd.concat(dfs, ignore_index=True) (line 118)
RECURSIVE Concat(_)
Concat(frames) ==
    IF frames = <<>> THEN EmptyFrame
    ELSE LET rest == Concat(Tail(frames))
         IN  Frame(Head(frames).cols \cup rest.cols, Head(frames).rows \o rest.rows)

\* drop_duplicates(subset=["symbol"]): the first row of each symbol value is
\* kept, NaN keys counting as equal to each other (line 122)
RECURSIVE KeepFirst(_, _)
KeepFirst(rows, seen) ==
    IF rows = <<>> THEN <<>>
    ELSE IF Head(rows).symbol \in seen
         THEN KeepFirst(Tail(rows), seen)
         ELSE <<Head(rows)>> \o KeepFirst(Tail(rows), seen \cup {Head(rows).symbol})

\* variant of DropDuplicates: the concatenation is returned as is
KeepsDuplicates(f) == f

DropDuplicates(f) == Frame(f.cols, KeepFirst(f.rows, {}))

(***************************************************************************)
(* fetch_screener_batch (src/app.py:70-124)                                *)
(***************************************************************************)
DefaultRetries == 2
MaxWorkers == 4

ExchangeOrder == <<"NASDAQ", "NYSE", "AMEX", "CBOE">>

\* JSON arrays the screener endpoint may serve for one exchange
Payloads == {<<>>, <<Rec("A")>>, <<Rec("B"), Rec("A")>>, <<Rec(Absent)>>}

Min(a, b) == IF a < b THEN a ELSE b

PoolWidth(exs) == Min(MaxWorkers, Len(exs))

Pending == [state |-> "pending", ok |-> FALSE, result |-> NoBody, exc |-> NoExc]

\* the future of ex.submit(get_json_with_retry, ...), once the call has ended
FutureOf(st) ==
    [state |-> "done", ok |-> (st.pc = "returned"), result |-> st.result, exc |-> st.raised]

\* variant of HandleFuture: the exception of fut.result() is not caught
HandleFutureUncaught(acc, exch, fut) ==
    IF fut.ok
    THEN LET frame == DataFrameOf(fut.result)
         IN  [acc EXCEPT !.dfs = Append(acc.dfs,
                                        IF ~IsEmpty(frame) THEN TagExchange(frame, exch)
                                        ELSE frame)]
    ELSE [acc EXCEPT !.raised = TRUE]

\* body of the as_completed loop for one future (lines 102-110); acc holds
\* dfs, errors and whether an exception escaped the loop
HandleFuture(acc, exch, fut) ==
    IF fut.ok
    THEN LET frame == DataFrameOf(fut.result)
         IN  [acc EXCEPT !.dfs = Append(acc.dfs,
                                        IF ~IsEmpty(frame) THEN TagExchange(frame, exch)
                                        ELSE frame)]
    ELSE [acc EXCEPT !.errors = Append(acc.errors, [exch |-> exch, exc |-> fut.exc])]

\* lines 112-124: warning, empty result, concatenation, deduplication
FinishFetch(acc) ==
    [warnings |-> IF acc.errors # <<>> THEN <<acc.errors>> ELSE <<>>,
     table |-> IF acc.dfs = <<>> THEN EmptyFrame
               ELSE LET all == Concat(acc.dfs)
                    IN  IF "symbol" \in all.cols THEN DropDuplicates(all) ELSE all]

StartAcc == [dfs |-> <<>>, errors |-> <<>>, raised |-> FALSE]

\* the whole call for one completion order of the futures
RECURSIVE Collected(_, _, _, _)
Collected(acc, exs, fs, order) ==
    IF order = <<>> THEN acc
    ELSE Collected(HandleFuture(acc, exs[Head(order)], fs[Head(order)]), exs, fs, Tail(order))

FetchResult(exs, fs, order) == FinishFetch(Collected(StartAcc, exs, fs, order))

FetchInit ==
    /\ \E n \in 1..Min(MaxExchanges, Len(ExchangeOrder)) :
          /\ exchanges = SubSeq(ExchangeOrder, 1, n)
          /\ futs = [k \in 1..n |-> Pending]
    /\ dfs = <<>>
    /\ errors = <<>>
    /\ warnings = <<>>
    /\ fpc = "collect"
    /\ df_all = EmptyFrame

Handled == {k \in 1..Len(exchanges) : futs[k].state = "handled"}
Completed == {k \in 1..Len(exchanges) : futs[k].state # "pending"}

\* a pool worker runs get_json_with_retry for exchange k to its end
WorkerRun(k) ==
    /\ fpc = "collect"
    /\ futs[k].state = "pending"
    /\ k <= PoolWidth(exchanges) + Cardinality(Completed)
    /\ \E outs \in [1..(DefaultRetries + 1) -> Outcomes], body \in Payloads :
          futs' = [futs EXCEPT ![k] =
                     FutureOf(RunRetry(RetryStart(DefaultRetries), DefaultRetries, outs, body))]
    /\ UNCHANGED <<exchanges, dfs, errors, warnings, fpc, df_all>>
    /\ UNCHANGED <<retryVars, enrichVars, summaryVars>>

\* the main thread takes a finished future from as_completed
Collect(k) ==
    /\ fpc = "collect"
    /\ futs[k].state = "done"
    /\ LET acc == HandleFuture([dfs |-> dfs, errors |-> errors, raised |-> FALSE],
                               exchanges[k], futs[k])
       IN  /\ dfs' = acc.dfs
           /\ errors' = acc.errors
           /\ fpc' = IF acc.raised THEN "raised" ELSE "collect"
    /\ futs' = [futs EXCEPT ![k].state = "handled"]
    /\ UNCHANGED <<exchanges, warnings, df_all>>
    /\ UNCHANGED <<retryVars, enrichVars, summaryVars>>

\* after the pool has shut down: lines 112-124
Finish ==
    /\ fpc = "collect"
    /\ Handled = 1..Len(exchanges)
    /\ LET r == FinishFetch([dfs |-> dfs, errors |-> errors, raised |-> FALSE])
       IN  /\ warnings' = r.warnings
           /\ df_all' = r.table
    /\ fpc' = "done"
    /\ UNCHANGED <<exchanges, futs, dfs, errors>>
    /\ UNCHANGED <<retryVars, enrichVars, summaryVars>>

FetchNext ==
    \/ \E k \in 1..Len(exchanges) : WorkerRun(k)
    \/ \E k \in 1..Len(exchanges) : Collect(k)
    \/ Finish



(***************************************************************************)
(* add_valuation_columns_bulk (src/app.py:129-193) and its caller          *)
(* (src/app.py:240-247)                                                    *)
(***************************************************************************)
\* cell values: JSON null / NaN, a number, a string float() parses, any
\* other string; AbsentV marks a key the record does not have
Null == [t |-> "null", n |-> 0]
Num(n) == [t |-> "num", n |-> n]
NumStr(n) == [t |-> "numstr", n |-> n]
Str == [t |-> "str", n |-> 0]
AbsentV == [t |-> "absent", n |-> 0]

NotNa(v) == v.t # "null"
CanFloat(v) == v.t \in {"num", "numstr"}
Float(v) == Num(v.n)

\* pd.to_numeric(..., errors="coerce") on one cell (lines 187-188)
ToNumeric(v) == IF CanFloat(v) THEN Num(v.n) ELSE Null

RatiosKeep == {"symbol", "priceToEarningsRatioTTM", "priceToBookRatioTTM",
               "enterpriseValueMultipleTTM"}
KmKeep == {"symbol", "evToEBITDATTM"}

\* labels of the bulk payloads' other fields
BulkOtherCols == {"currentRatioTTM"}

RatiosRec(sym, pe, pb, ev) ==
    [symbol |-> sym, priceToEarningsRatioTTM |-> pe, priceToBookRatioTTM |-> pb,
     enterpriseValueMultipleTTM |-> ev]
KmRec(sym, ev) == [symbol |-> sym, evToEBITDATTM |-> ev]

HasKey(rec, c) == IF c = "symbol" THEN rec.symbol # Absent ELSE rec[c] # AbsentV

\* pd.DataFrame(r.json()) for a bulk payload (lines 147, 156)
BulkFrameOf(data, keep) ==
    LET BulkRow(rec) ==
            [c \in keep |->
                IF c = "symbol" THEN (IF rec.symbol = Absent THEN NaN ELSE rec.symbol)
                ELSE IF rec[c] = AbsentV THEN Null ELSE rec[c]]
    IN  IF Len(data) = 0 THEN EmptyFrame
        ELSE Frame(BulkOtherCols \cup
                     {c \in keep : \E k \in 1..Len(data) : HasKey(data[k], c)},
                   MapSeq(BulkRow, data))

\* the frame of the except clauses (lines 149-151, 158)
FallbackFrame(keep) == Frame(keep, <<>>)

\* outcome of one bulk GET: try/except of lines 144-151 and 153-158
BulkGet(outcome, keep) ==
    IF outcome.ok THEN BulkFrameOf(outcome.data, keep) ELSE FallbackFrame(keep)

\* symbols = set(df["symbol"].dropna().unique().tolist()) (line 138)
SymbolsOf(f) == {f.rows[j].symbol : j \in 1..Len(f.rows)} \ {NaN}

\* lines 163-165 and 168-170: column selection, then the rows of our symbols
FilterBulk(f, keep, symbols) ==
    IF IsEmpty(f) THEN [exc |-> "none", frame |-> f]
    ELSE IF ~(keep \subseteq f.cols) THEN [exc |-> "KeyError", frame |-> EmptyFrame]
    ELSE [exc |-> "none",
          frame |-> Frame(keep, SelectSeq(f.rows, LAMBDA r : r.symbol \in symbols))]

\* left.merge(right, on="symbol", how="left") (line 173)
RECURSIVE LeftRows(_, _, _)
LeftRows(lrows, right, vcols) ==
    IF lrows = <<>> THEN <<>>
    ELSE LET l == Head(lrows)
             matches == SelectSeq(right.rows, LAMBDA r : r.symbol = l.symbol)
             Join(r) == l @@ [c \in vcols |-> r[c]]
         IN  (IF matches = <<>> THEN <<l @@ [c \in vcols |-> Null]>>
              ELSE MapSeq(Join, matches))
             \o LeftRows(Tail(lrows), right, vcols)

LeftMerge(left, right) ==
    IF "symbol" \notin right.cols \/ "symbol" \notin left.cols
    THEN [exc |-> "KeyError", frame |-> EmptyFrame]
    ELSE [exc |-> "none",
          frame |-> Frame(left.cols \cup right.cols,
                          LeftRows(left.rows, right, right.cols \ {"symbol"}))]

\* row.get(label)
Get(row, c) == IF c \in DOMAIN row THEN row[c] ELSE Null

\* _coalesce_ev_ebitda (lines 176-182)
CoalesceEvEbitda(row) ==
    LET a == Get(row, "enterpriseValueMultipleTTM")
        b == Get(row, "evToEBITDATTM")
    IN  IF NotNa(a)
        THEN (IF CanFloat(a) THEN Float(a) ELSE a)
        ELSE IF NotNa(b)
             THEN (IF CanFloat(b) THEN Float(b) ELSE b)
             ELSE Null

\* lines 184-188: the three final columns
FinalColumns(f) ==
    LET Final(row) ==
            [c \in DOMAIN row \cup {"enterpriseValueOverEBITDATTM", "peRatioTTM",
                                    "priceToBookRatioTTM"} |->
                CASE c = "enterpriseValueOverEBITDATTM" -> CoalesceEvEbitda(row)
                  [] c = "peRatioTTM" -> ToNumeric(Get(row, "priceToEarningsRatioTTM"))
                  [] c = "priceToBookRatioTTM" -> ToNumeric(Get(row, "priceToBookRatioTTM"))
                  [] OTHER -> row[c]]
    IN  Frame(f.cols \cup {"enterpriseValueOverEBITDATTM", "peRatioTTM", "priceToBookRatioTTM"},
              MapSeq(Final, f.rows))

Returned(kind, f, exc) == [kind |-> kind, frame |-> f, exc |-> exc]
NoReturn == Returned("none", EmptyFrame, "none")

\* lines 161-193 on the two bulk frames
MergeBulks(d, ratios, km) ==
    LET symbols == SymbolsOf(d)
        f1 == FilterBulk(ratios, RatiosKeep, symbols)
        f2 == FilterBulk(km, KmKeep, symbols)
        m1 == LeftMerge(d, f1.frame)
        m2 == LeftMerge(m1.frame, f2.frame)
    IN  IF f1.exc # "none" THEN Returned("raise", EmptyFrame, f1.exc)
        ELSE IF f2.exc # "none" THEN Returned("raise", EmptyFrame, f2.exc)
        ELSE IF m1.exc # "none" THEN Returned("raise", EmptyFrame, m1.exc)
        ELSE IF m2.exc # "none" THEN Returned("raise", EmptyFrame, m2.exc)
        ELSE Returned("tuple", FinalColumns(m2.frame), "none")

\* df, bulk_secs = add_valuation_columns_bulk(df) (line 247): a tuple unpacks;
\* a bare DataFrame iterates over its column labels
Unpack(r) ==
    IF r.kind = "tuple" THEN "done"
    ELSE IF Cardinality(r.frame.cols) = 2 THEN "mislabelled"
    ELSE "raised"

SeqsUpTo(S, n) == UNION {[1..k -> S] : k \in 0..n}

\* JSON arrays of the screener endpoint the run may start from
ScreenerPayloads == Payloads \cup {<<Rec("A"), Rec(Absent)>>}

\* records of the ratios bulk: well formed, non-numeric, fields missing, null
\* EV/EBITDA, a symbol outside the screener's, no symbol
RatioRecords ==
    {RatiosRec("A", Num(5), Num(7), Num(1)),
     RatiosRec("A", Str, NumStr(7), Str),
     RatiosRec("A", AbsentV, Num(7), AbsentV),
     RatiosRec("B", Num(5), Null, Null),
     RatiosRec("C", Num(5), Num(7), Num(1)),
     RatiosRec(Absent, Num(5), Num(7), Num(1))}

KmRecords ==
    {KmRec("A", Num(3)), KmRec("A", Str), KmRec("A", AbsentV), KmRec("B", Num(3))}

BulkOutcomes(records) ==
    {[ok |-> FALSE, data |-> <<>>]} \cup {[ok |-> TRUE, data |-> d] : d \in SeqsUpTo(records, MaxBulk)}

NoOutcome == [ok |-> FALSE, data |-> <<>>]

EnrichInit ==
    /\ \E p \in ScreenerPayloads :
          df = FetchResult(<<ExchangeOrder[1]>>,
                           <<FutureOf(RunRetry(RetryStart(DefaultRetries), DefaultRetries,
                                               <<"ok">>, p))>>,
                           <<1>>).table
    /\ r1 = NoOutcome
    /\ r2 = NoOutcome
    /\ ratios_bulk = EmptyFrame
    /\ km_bulk = EmptyFrame
    /\ ret = NoReturn
    /\ epc = "check"

\* lines 240-242: no data, the run stops
StopNoData ==
    /\ epc = "check"
    /\ IsEmpty(df)
    /\ epc' = "stopped"
    /\ UNCHANGED <<df, r1, r2, ratios_bulk, km_bulk, ret>>
    /\ UNCHANGED <<retryVars, fetchVars, summaryVars>>

\* lines 135-136: the early return of the bare frame
EarlyReturn ==
    /\ epc = "check"
    /\ ~IsEmpty(df)
    /\ "symbol" \notin df.cols
    /\ ret' = Returned("frame", df, "none")
    /\ epc' = "unpack"
    /\ UNCHANGED <<df, r1, r2, ratios_bulk, km_bulk>>
    /\ UNCHANGED <<retryVars, fetchVars, summaryVars>>

\* lines 144-151: the ratios bulk GET
GetRatios ==
    /\ epc = "check"
    /\ ~IsEmpty(df)
    /\ "symbol" \in df.cols
    /\ \E o \in BulkOutcomes(RatioRecords) :
          /\ r1' = o
          /\ ratios_bulk' = BulkGet(o, RatiosKeep)
    /\ epc' = "get_km"
    /\ UNCHANGED <<df, r2, km_bulk, ret>>
    /\ UNCHANGED <<retryVars, fetchVars, summaryVars>>

\* lines 153-158: the key-metrics bulk GET
GetKeyMetrics ==
    /\ epc = "get_km"
    /\ \E o \in BulkOutcomes(KmRecords) :
          /\ r2' = o
          /\ km_bulk' = BulkGet(o, KmKeep)
    /\ epc' = "merge"
    /\ UNCHANGED <<df, r1, ratios_bulk, ret>>
    /\ UNCHANGED <<retryVars, fetchVars, summaryVars>>

\* lines 161-193: filter, merge, final columns, return (or the exception)
MergeAndReturn ==
    /\ epc = "merge"
    /\ ret' = MergeBulks(df, ratios_bulk, km_bulk)
    /\ epc' = IF ret'.kind = "raise" THEN "raised" ELSE "unpack"
    /\ UNCHANGED <<df, r1, r2, ratios_bulk, km_bulk>>
    /\ UNCHANGED <<retryVars, fetchVars, summaryVars>>

\* line 247: the caller unpacks the result
UnpackResult ==
    /\ epc = "unpack"
    /\ epc' = Unpack(ret)
    /\ UNCHANGED <<df, r1, r2, ratios_bulk, km_bulk, ret>>
    /\ UNCHANGED <<retryVars, fetchVars, summaryVars>>

EnrichNext ==
    \/ StopNoData
    \/ EarlyReturn
    \/ GetRatios
    \/ GetKeyMetrics
    \/ MergeAndReturn
    \/ UnpackResult

(***************************************************************************)
(* Sector and industry summaries (src/app.py:270-294)                      *)
(***************************************************************************)
\* groupby sorts its keys; a missing key (dropna=False) comes last
SectorOrder == <<"Energy", "Tech", NaN>>
IndustryOrder == <<"Hardware", "Oil", "Software">>

RankIn(order, x) == CHOOSE k \in 1..Len(order) : order[k] = x

\* (sector, industry) of the rows of the final table
SectorIndustry ==
    {<<"Energy", "Oil">>, <<"Tech", "Hardware">>, <<"Tech", "Software">>, <<NaN, "Software">>}
TableSymbols == {"A", "B"}
MarketCaps == {1, 3}

TableRows ==
    {[symbol |-> s, sector |-> si[1], industry |-> si[2], marketCap |-> m] :
        s \in TableSymbols, si \in SectorIndustry, m \in MarketCaps}

SectorKey(row) == <<row.sector>>
IndustryKey(row) == <<row.sector, row.industry>>

\* position of a group key in groupby's sorted order
KeyRank(key) ==
    IF Len(key) = 1 THEN RankIn(SectorOrder, key[1]) * (Len(IndustryOrder) + 1)
    ELSE RankIn(SectorOrder, key[1]) * (Len(IndustryOrder) + 1) + RankIn(IndustryOrder, key[2])

RECURSIVE SortedKeys(_)
SortedKeys(keys) ==
    IF keys = {} THEN <<>>
    ELSE LET m == CHOOSE x \in keys : \A y \in keys : KeyRank(x) <= KeyRank(y)
         IN  <<m>> \o SortedKeys(keys \ {m})

\* variant of NUnique: counts the rows of the group (size, not nunique)
CountsRows(rows) == Len(rows)

\* ("symbol", "nunique")
NUnique(rows) == Cardinality({rows[j].symbol : j \in 1..Len(rows)} \ {NaN})

\* ("marketCap", "sum")
RECURSIVE SumCaps(_)
SumCaps(rows) == IF rows = <<>> THEN 0 ELSE Head(rows).marketCap + SumCaps(Tail(rows))

\* ("marketCap", "mean"), as the fraction <<numerator, denominator>>
MeanCaps(rows) == <<SumCaps(rows), Len(rows)>>

RECURSIVE InsertSorted(_, _)
InsertSorted(v, s) ==
    IF s = <<>> THEN <<v>>
    ELSE IF v <= Head(s) THEN <<v>> \o s
    ELSE <<Head(s)>> \o InsertSorted(v, Tail(s))

RECURSIVE SortedCaps(_)
SortedCaps(rows) ==
    IF rows = <<>> THEN <<>> ELSE InsertSorted(Head(rows).marketCap, SortedCaps(Tail(rows)))

\* ("marketCap", "median"), as a fraction: the middle value, or the mean of
\* the two middle values
MedianCaps(rows) ==
    LET v == SortedCaps(rows)
        n == Len(v)
    IN  IF n % 2 = 1 THEN <<v[(n + 1) \div 2], 1>>
        ELSE <<v[n \div 2] + v[n \div 2 + 1], 2>>

GroupOf(tbl, KeyOf(_), key) == SelectSeq(tbl, LAMBDA r : KeyOf(r) = key)

KeysOf(tbl, KeyOf(_)) == {KeyOf(tbl[j]) : j \in 1..Len(tbl)}

\* df.groupby("sector", dropna=False).agg(...) (lines 273-277)
SectorAgg(tbl) ==
    LET keys == SortedKeys(KeysOf(tbl, SectorKey))
        Row(key) ==
            LET g == GroupOf(tbl, SectorKey, key)
            IN  [key |-> key, tickers |-> NUnique(g), total_mktcap |-> SumCaps(g),
                 avg_mktcap |-> MeanCaps(g), median_mktcap |-> MedianCaps(g)]
    IN  Frame({"tickers", "total_mktcap", "avg_mktcap", "median_mktcap"}, MapSeq(Row, keys))

\* df.groupby(["sector", "industry"], dropna=False).agg(...) (lines 289-292)
IndustryAgg(tbl) ==
    LET keys == SortedKeys(KeysOf(tbl, IndustryKey))
        Row(key) ==
            LET g == GroupOf(tbl, IndustryKey, key)
            IN  [key |-> key, tickers |-> NUnique(g), total_mktcap |-> SumCaps(g),
                 avg_mktcap |-> MeanCaps(g)]
    IN  Frame({"tickers", "total_mktcap", "avg_mktcap"}, MapSeq(Row, keys))

Permuted(rows, o) == [k \in 1..Len(rows) |-> rows[o[k]]]

\* .sort_values("tickers", ascending=False) (line 278): the default kind is
\* quicksort, which is not stable, so rows of equal count come in any order
SortByTickers(f) ==
    {Frame(f.cols, Permuted(f.rows, o)) :
        o \in {p \in Orders(Len(f.rows)) :
                 \A a, b \in 1..Len(f.rows) :
                    a < b => f.rows[p[a]].tickers >= f.rows[p[b]].tickers}}

\* .sort_values(["sector", "tickers"], ascending=[True, False]) (line 293):
\* a lexicographic sort on several keys is stable
SortBySectorThenTickers(f) ==
    LET Before(i, j) ==
            \/ RankIn(SectorOrder, f.rows[i].key[1]) < RankIn(SectorOrder, f.rows[j].key[1])
            \/ /\ f.rows[i].key[1] = f.rows[j].key[1]
               /\ \/ f.rows[i].tickers > f.rows[j].tickers
                  \/ f.rows[i].tickers = f.rows[j].tickers /\ i < j
        o == CHOOSE p \in Orders(Len(f.rows)) :
                \A a, b \in 1..Len(f.rows) : a < b => Before(p[a], p[b])
    IN  Frame(f.cols, Permuted(f.rows, o))

NoSummary == Frame({}, <<>>)

SummaryInit ==
    /\ table \in SeqsUpTo(TableRows, MaxTableRows) \ {<<>>}
    /\ show_sector_summary \in BOOLEAN
    /\ show_industry_summary \in BOOLEAN
    /\ sec = NoSummary
    /\ ind = NoSummary
    /\ spc = "sector"

\* lines 270-279
SectorSummary ==
    /\ spc = "sector"
    /\ show_sector_summary
    /\ sec' \in SortByTickers(SectorAgg(table))
    /\ spc' = "industry"
    /\ UNCHANGED <<table, show_sector_summary, show_industry_summary, ind>>
    /\ UNCHANGED <<retryVars, fetchVars, enrichVars>>

SkipSectorSummary ==
    /\ spc = "sector"
    /\ ~show_sector_summary
    /\ spc' = "industry"
    /\ UNCHANGED <<table, show_sector_summary, show_industry_summary, sec, ind>>
    /\ UNCHANGED <<retryVars, fetchVars, enrichVars>>

\* lines 286-294
IndustrySummary ==
    /\ spc = "industry"
    /\ show_industry_summary
    /\ ind' = SortBySectorThenTickers(IndustryAgg(table))
    /\ spc' = "done"
    /\ UNCHANGED <<table, show_sector_summary, show_industry_summary, sec>>
    /\ UNCHANGED <<retryVars, fetchVars, enrichVars>>

SkipIndustrySummary ==
    /\ spc = "industry"
    /\ ~show_industry_summary
    /\ spc' = "done"
    /\ UNCHANGED <<table, show_sector_summary, show_industry_summary, sec, ind>>
    /\ UNCHANGED <<retryVars, fetchVars, enrichVars>>

SummaryNext ==
    \/ SectorSummary
    \/ SkipSectorSummary
    \/ IndustrySummary
    \/ SkipIndustrySummary

(***************************************************************************)
(* Properties of get_json_with_retry                                       *)
(***************************************************************************)
Gets(st) == SelectSeq(st.log, LAMBDA e : e.ev = "get")

\* C1: the call issues at most retries+1 GET attempts, an attempt that
\* succeeds is the last one and its JSON is what the call returns, and a call
\* that raises has made retries+1 failed attempts and raises the exception of
\* the last of them.
C1_RetryContract ==
    LET g == Gets(call) IN
    /\ Len(g) <= retries + 1
    /\ \A k \in 1..Len(g) :
          g[k].out = "ok" =>
             /\ k = Len(g)
             /\ call.pc = "returned"
             /\ call.result = g[k].body
    /\ call.pc = "returned" => Len(g) >= 1 /\ g[Len(g)].out = "ok"
    /\ call.pc = "raised" =>
          /\ Len(g) = retries + 1
          /\ \A k \in 1..Len(g) : g[k].out \in ErrorKinds
          /\ call.raised = [kind |-> g[Len(g)].out, at |-> retries]

\* a call that raised after attempts failing with different kinds of error
C1_Witness ==
    /\ call.pc = "raised"
    /\ retries >= 1
    /\ Gets(call)[1].out # Gets(call)[retries + 1].out

\* C9: every failed attempt is followed by a wait of base_delay * 2^i, no wait
\* follows a successful attempt, and every wait is followed by a further
\* attempt.
C9_EveryWaitThenRetry ==
    \A k \in 1..Len(call.log) :
       LET e == call.log[k] IN
       /\ (e.ev = "get" /\ e.out \in ErrorKinds /\ k < Len(call.log)) =>
             /\ call.log[k + 1].ev = "sleep"
             /\ call.log[k + 1].d = BaseDelayTenths * Pow2(e.i)
       /\ (e.ev = "get" /\ e.out = "ok") => k = Len(call.log)
       /\ e.ev = "sleep" =>
             /\ k > 1
             /\ call.log[k - 1].ev = "get"
             /\ call.log[k - 1].out \in ErrorKinds
             /\ Terminated(call) => (k < Len(call.log) /\ call.log[k + 1].ev = "get")

(***************************************************************************)
(* Properties of fetch_screener_batch                                      *)
(***************************************************************************)
Succeeded == {k \in 1..Len(exchanges) : futs[k].state # "pending" /\ futs[k].ok}
Failed == {k \in 1..Len(exchanges) : futs[k].state # "pending" /\ ~futs[k].ok}

ReturnedSymbols(k) == {futs[k].result[j].symbol : j \in 1..Len(futs[k].result)} \ {Absent}

RowsOf(f, s) == {j \in 1..Len(f.rows) : f.rows[j].symbol = s}

\* C2: every symbol returned by an exchange query that succeeded is in exactly
\* one row of the returned table.
C2_EachSymbolOnce ==
    fpc = "done" =>
       \A k \in Succeeded : \A s \in ReturnedSymbols(k) :
          Cardinality(RowsOf(df_all, s)) = 1

\* a finished call in which two exchanges returned the same symbol
C2_Witness ==
    /\ fpc = "done"
    /\ \E k1, k2 \in Succeeded : k1 # k2 /\ ReturnedSymbols(k1) \cap ReturnedSymbols(k2) # {}

SourceOf(f) == {<<f.rows[j].symbol, f.rows[j].sourceExchange>> : j \in 1..Len(f.rows)}

\* C3: the sourceExchange of every surviving row is the one that any other
\* completion order of the same exchange requests would have produced.
C3_SourceExchangeDeterministic ==
    fpc = "done" =>
       \A o \in Orders(Len(exchanges)) :
          SourceOf(FetchResult(exchanges, futs, o).table) = SourceOf(df_all)

\* C4: the call never raises; when it returns, the symbols of the table are
\* the union of the symbols of the queries that succeeded, every failed query
\* is named in the warning, and the table is empty when every query failed.
C4_FailuresContained ==
    /\ fpc # "raised"
    /\ fpc = "done" =>
          /\ {df_all.rows[j].symbol : j \in 1..Len(df_all.rows)} \ {NaN}
                = UNION {ReturnedSymbols(k) : k \in Succeeded}
          /\ Failed # {} =>
                /\ Len(warnings) = 1
                /\ {warnings[1][j].exch : j \in 1..Len(warnings[1])}
                      = {exchanges[k] : k \in Failed}
          /\ Failed = {} => warnings = <<>>
          /\ Succeeded = {} => IsEmpty(df_all)

\* two of three exchange queries failed and the third returned rows
C4_Witness ==
    /\ fpc = "done"
    /\ Len(exchanges) = 3
    /\ Cardinality(Failed) = 2
    /\ Len(df_all.rows) > 0

(***************************************************************************)
(* Properties of add_valuation_columns_bulk and its caller                 *)
(***************************************************************************)
FunctionEnded == ret # NoReturn

\* every record of a fetched bulk payload carries every expected field
Complete(outcome, keep) ==
    outcome.ok => \A k \in 1..Len(outcome.data) : \A c \in keep : HasKey(outcome.data[k], c)

\* C5: whatever the two bulk GETs did (failed, or served records that carry
\* every expected field, for our symbols or not), the call returns a table
\* and every symbol of the table passed in is in it.
C5_SymbolsPreserved ==
    (epc \in {"unpack", "raised", "done"} /\ Complete(r1, RatiosKeep) /\ Complete(r2, KmKeep)) =>
       /\ FunctionEnded
       /\ ret.kind \in {"tuple", "frame"}
       /\ SymbolsOf(df) \subseteq SymbolsOf(ret.frame)

IsNumber(v) == v.t = "num"

\* C6: in every row of the returned table the reconciled EV/EBITDA is the
\* fallback when the primary is null or non-numeric and the fallback is a
\* number, and the primary when both are numbers.
C6_FallbackReconciliation ==
    ret.kind = "tuple" =>
       \A j \in 1..Len(ret.frame.rows) :
          LET row == ret.frame.rows[j]
              a == row.enterpriseValueMultipleTTM
              b == row.evToEBITDATTM
          IN  /\ (~IsNumber(a) /\ IsNumber(b)) => row.enterpriseValueOverEBITDATTM = b
              /\ (IsNumber(a) /\ IsNumber(b)) => row.enterpriseValueOverEBITDATTM = a

\* C7: no screener or bulk payload with a missing or non-numeric field makes
\* the run raise, and a value that is missing or non-numeric is null in the
\* output columns.
C7_MalformedNeverRaises ==
    /\ epc \notin {"raised", "mislabelled"}
    /\ ret.kind # "raise"
    /\ ret.kind = "tuple" =>
          \A j \in 1..Len(ret.frame.rows) :
             LET row == ret.frame.rows[j]
             IN  /\ ~CanFloat(row.priceToEarningsRatioTTM) => row.peRatioTTM = Null
                 /\ row.priceToBookRatioTTM.t \in {"num", "null"}
                 /\ (~CanFloat(row.enterpriseValueMultipleTTM) /\ ~CanFloat(row.evToEBITDATTM))
                       => row.enterpriseValueOverEBITDATTM = Null

\* C8: the returned table has as many rows as the table passed in and no
\* symbol in two rows.
C8_OneRowPerSymbol ==
    ret.kind = "tuple" =>
       /\ Len(ret.frame.rows) = Len(df.rows)
       /\ \A i, j \in 1..Len(ret.frame.rows) :
             ret.frame.rows[i].symbol = ret.frame.rows[j].symbol => i = j

(***************************************************************************)
(* Properties of the summaries                                             *)
(***************************************************************************)
SectorShown == spc \in {"industry", "done"} /\ show_sector_summary
IndustryShown == spc = "done" /\ show_industry_summary

GroupIdx(KeyOf(_), key) == {j \in 1..Len(table) : KeyOf(table[j]) = key}

\* sum of marketCap over the rows idx, value by value
RECURSIVE TotalOver(_, _)
TotalOver(caps, idx) ==
    IF caps = {} THEN 0
    ELSE LET c == CHOOSE x \in caps : TRUE
         IN  c * Cardinality({j \in idx : table[j].marketCap = c}) + TotalOver(caps \ {c}, idx)

Below(idx, v) == Cardinality({j \in idx : table[j].marketCap < v})
UpTo(idx, v) == Cardinality({j \in idx : table[j].marketCap <= v})

\* m is the median of marketCap over the rows idx
IsMedianOf(idx, m) ==
    LET n == Cardinality(idx)
        vals == {table[j].marketCap : j \in idx}
    IN  IF n % 2 = 1
        THEN /\ m[2] = 1
             /\ m[1] \in vals
             /\ 2 * Below(idx, m[1]) < n
             /\ 2 * UpTo(idx, m[1]) > n
        ELSE /\ m[2] = 2
             /\ \E lo, hi \in vals :
                   /\ m[1] = lo + hi
                   /\ 2 * Below(idx, lo) < n /\ 2 * UpTo(idx, lo) >= n
                   /\ 2 * Below(idx, hi) <= n /\ 2 * UpTo(idx, hi) > n

OneRowPerGroup(f, KeyOf(_)) ==
    /\ \A j \in 1..Len(table) : \E k \in 1..Len(f.rows) : f.rows[k].key = KeyOf(table[j])
    /\ \A k \in 1..Len(f.rows) : GroupIdx(KeyOf, f.rows[k].key) # {}
    /\ \A k, l \in 1..Len(f.rows) : f.rows[k].key = f.rows[l].key => k = l

CountSumMean(f, KeyOf(_)) ==
    \A k \in 1..Len(f.rows) :
       LET row == f.rows[k]
           idx == GroupIdx(KeyOf, row.key)
       IN  /\ row.tickers = Cardinality({table[j].symbol : j \in idx})
           /\ row.total_mktcap = TotalOver(MarketCaps, idx)
           /\ row.avg_mktcap = <<row.total_mktcap, Cardinality(idx)>>

HasMedian(f, KeyOf(_)) ==
    /\ "median_mktcap" \in f.cols
    /\ \A k \in 1..Len(f.rows) :
          IsMedianOf(GroupIdx(KeyOf, f.rows[k].key), f.rows[k].median_mktcap)

DescendingCount(f) ==
    \A a, b \in 1..Len(f.rows) : a < b => f.rows[a].tickers >= f.rows[b].tickers

TiesInGroupOrder(f) ==
    \A a, b \in 1..Len(f.rows) :
       (a < b /\ f.rows[a].tickers = f.rows[b].tickers)
          => KeyRank(f.rows[a].key) < KeyRank(f.rows[b].key)

SectorThenDescendingCount(f) ==
    \A a, b \in 1..Len(f.rows) :
       a < b =>
          LET ra == f.rows[a]
              rb == f.rows[b]
          IN  /\ RankIn(SectorOrder, ra.key[1]) <= RankIn(SectorOrder, rb.key[1])
              /\ ra.key[1] = rb.key[1] => ra.tickers >= rb.tickers
              /\ (ra.key[1] = rb.key[1] /\ ra.tickers = rb.tickers)
                    => RankIn(IndustryOrder, ra.key[2]) < RankIn(IndustryOrder, rb.key[2])

RetryIdle ==
    /\ retries = 0
    /\ call = IdleCall

EnrichIdle ==
    /\ df = EmptyFrame
    /\ r1 = NoOutcome
    /\ r2 = NoOutcome
    /\ ratios_bulk = EmptyFrame
    /\ km_bulk = EmptyFrame
    /\ ret = NoReturn
    /\ epc = "idle"

SummaryIdle ==
    /\ table = <<>>
    /\ show_sector_summary = FALSE
    /\ show_industry_summary = FALSE
    /\ sec = NoSummary
    /\ ind = NoSummary
    /\ spc = "idle"

FetchIdle ==
    /\ exchanges = <<>>
    /\ futs = <<>>
    /\ dfs = <<>>
    /\ errors = <<>>
    /\ warnings = <<>>
    /\ fpc = "idle"
    /\ df_all = EmptyFrame

InitRetry == RetryInit /\ FetchIdle /\ EnrichIdle /\ SummaryIdle

SpecRetry == InitRetry /\ [][RetryNext]_vars

InitEnrich == EnrichInit /\ RetryIdle /\ FetchIdle /\ SummaryIdle

SpecEnrich == InitEnrich /\ [][EnrichNext]_vars

InitSummary == SummaryInit /\ RetryIdle /\ FetchIdle /\ EnrichIdle

SpecSummary == InitSummary /\ [][SummaryNext]_vars

InitFetch == FetchInit /\ RetryIdle /\ EnrichIdle /\ SummaryIdle

SpecFetch == InitFetch /\ [][FetchNext]_vars

====
